---- MODULE Spec2Model ----
(***************************************************************************)
(* thorc: the archive cache of RepoDef::download (src/src/repo_def.rs).    *)
(* The cache root holds, per cache key, a compressed artifact, an etag     *)
(* file and extracted directories named by key and content digest.         *)
(* One CLI process walks through download / download_file / flatten one    *)
(* fallible operation at a time; every `?` and `unwrap` of the source is a *)
(* place where the environment may make the step fail.                     *)
(***************************************************************************)
EXTENDS Integers, Sequences, FiniteSets, TLC

-----------------------------------------------------------------------------
(* Bounds of the model *)

\* the environment makes at most MaxFaults operations fail
MaxFaults ==
    2

\* the clock stops at MaxTime
MaxTime ==
    120

\* the clock advances in steps of TickStep seconds
TickStep ==
    30

\* the config holds at most MaxRemotes remote indexes
MaxRemotes ==
    2

(* Program constants *)

\* Duration::from_secs(60)
FreshSecs ==
    60

-----------------------------------------------------------------------------
(* Repository references *)

\* GitProvider::simple_name
simple_name(gp) ==
    IF gp = "GitHub" THEN "github" ELSE "gitlab"

\* struct RepoDef
RepoDef(gp, user, repo, git_ref) ==
    [git_provider |-> gp, user |-> user, repo |-> repo, git_ref |-> git_ref]

\* fn default_branch
default_branch ==
    "main"

RepoOne ==
    RepoDef("GitHub", "a", "b_c", default_branch)

\* differs from RepoOne in user and repo, yet cache_file gives both the same key
RepoTwo ==
    RepoDef("GitHub", "a_b", "c", default_branch)

RepoThree ==
    RepoDef("GitLab", "a", "b_c", default_branch)

\* the references the catalogs of the model can hold
Refs ==
    { RepoOne, RepoTwo, RepoThree }

\* cache_file that leaves the provider out of the key
cache_file_NoProvider(r) ==
    r.user \o "_" \o r.repo \o "_" \o r.git_ref

\* RepoDef::cache_file
cache_file(r) ==
    simple_name(r.git_provider) \o "_" \o r.user \o "_" \o r.repo \o "_" \o r.git_ref

\* RepoDef::link
link(r) ==
    IF r.git_provider = "GitHub"
    THEN "https://github.com/" \o r.user \o "/" \o r.repo \o "/tree/" \o r.git_ref
    ELSE "https://gitlab.com/" \o r.user \o "/" \o r.repo \o "/-/tree/" \o r.git_ref

\* RepoDef::archive_link
archive_link(r) ==
    IF r.git_provider = "GitHub"
    THEN "https://github.com/" \o r.user \o "/" \o r.repo \o "/archive/" \o r.git_ref \o ".tar.gz"
    ELSE "https://gitlab.com/api/v4/projects/" \o r.user \o "%2F" \o r.repo
             \o "/repository/archive.tar.gz?sha=" \o r.git_ref

\* cache.join(format!("{}.tar.gz", file))
TarPath(file) ==
    file \o ".tar.gz"

\* path.with_extension("etag"): the last extension (gz) is replaced
EtagPath(file) ==
    file \o ".tar.etag"

Keys ==
    { cache_file(r) : r \in Refs }

TarPaths ==
    { TarPath(k) : k \in Keys }

EtagPaths ==
    { EtagPath(k) : k \in Keys }

Urls ==
    { archive_link(r) : r \in Refs }

-----------------------------------------------------------------------------
(* Archives: a tar stream is a sequence of entries, closed by an end mark. *)
(* A file cut short by a failed write is a proper prefix of the stream.    *)

Entry(path, isdir) ==
    [path |-> path, dir |-> isdir]

EndMark ==
    Entry(<<>>, FALSE)

\* X/ holding a and b
ArchOne ==
    << Entry(<<"X">>, TRUE), Entry(<<"X", "a">>, FALSE), Entry(<<"X", "b">>, FALSE), EndMark >>

\* X/ holding a alone
ArchAlt ==
    << Entry(<<"X">>, TRUE), Entry(<<"X", "a">>, FALSE), EndMark >>

Archives ==
    { ArchOne, ArchAlt }

\* an archive with no entry at all
ArchEmpty ==
    << EndMark >>

\* two top-level directories: X/ holding a, Y/ holding b
ArchTwo ==
    << Entry(<<"X">>, TRUE), Entry(<<"X", "a">>, FALSE),
       Entry(<<"Y">>, TRUE), Entry(<<"Y", "b">>, FALSE), EndMark >>

\* archives without the single top-level wrapper
ShapeArchives ==
    { ArchEmpty, ArchTwo }

Prefixes(s) ==
    { SubSeq(s, 1, n) : n \in 0..Len(s) }

ProperPrefixes(s) ==
    { SubSeq(s, 1, n) : n \in 0..(Len(s) - 1) }

\* every content the artifact file can have
Bytes ==
    UNION { Prefixes(a) : a \in Archives \cup ShapeArchives }

\* one hex digit per entry of the stream
HexOf(e) ==
    IF e = EndMark THEN "e"
    ELSE IF e.dir THEN (IF e.path = <<"X">> THEN "d" ELSE "c")
    ELSE e.path[Len(e.path)]

RECURSIVE to_hex(_)
to_hex(buf) ==
    IF buf = <<>> THEN "" ELSE HexOf(Head(buf)) \o to_hex(Tail(buf))

\* hash_buffer: Sha512 digest in hex; distinct buffers have distinct digests
hash_buffer(buf) ==
    "0" \o to_hex(buf)

\* OutDir without the cache key: the directory is named by the digest alone
OutDir_DigestOnly(file, hash) ==
    hash

\* cache.join(format!("{}-{}", file, hash))
OutDir(file, hash) ==
    file \o "-" \o hash

DirNames ==
    { OutDir(k, hash_buffer(b)) : k \in Keys, b \in Bytes }

\* Option values: None is the empty sequence, Some(x) the one-element one
None ==
    <<>>

Some(x) ==
    <<x>>

\* the ETag the server sends with content `bytes` of `url`
ServerEtag(url, bytes) ==
    [url |-> url, of |-> bytes]

\* the CLI processes that can run on one cache root
Procs ==
    { "main", "other" }

-----------------------------------------------------------------------------
(* Strings of the index: a String is the sequence of its characters, so that    *)
(* str::contains and str::cmp can be computed                                   *)

\* the characters of the model, in the order of their code points
Alphabet ==
    << " ", "-", "1", "E", "R", "S", "T", "W", "_", "a", "b", "c", "d", "e", "i",
       "k", "m", "n", "o", "p", "r", "s", "t", "u", "v", "w" >>

\* the place of a character in the order of code points
code(c) ==
    CHOOSE i \in 1..Len(Alphabet) : Alphabet[i] = c

\* str::cmp: the first differing character decides, a proper prefix is Less
RECURSIVE str_cmp(_, _)
str_cmp(a, b) ==
    IF a = <<>> /\ b = <<>> THEN "Equal"
    ELSE IF a = <<>> THEN "Less"
    ELSE IF b = <<>> THEN "Greater"
    ELSE IF code(Head(a)) < code(Head(b)) THEN "Less"
    ELSE IF code(Head(a)) > code(Head(b)) THEN "Greater"
    ELSE str_cmp(Tail(a), Tail(b))

\* the lower-case letter of an upper-case one
to_lowercase(c) ==
    CASE c = "E" -> "e"
      [] c = "R" -> "r"
      [] c = "S" -> "s"
      [] c = "T" -> "t"
      [] c = "W" -> "w"
      [] OTHER -> c

\* contains that compares without regard to case
contains_IgnoreCase(s, term) ==
    \E i \in 0..(Len(s) - Len(term)) :
        \A k \in 1..Len(term) : to_lowercase(s[i + k]) = to_lowercase(term[k])

\* str::contains(term): term occurs in s, character for character
contains(s, term) ==
    \E i \in 0..(Len(s) - Len(term)) :
        SubSeq(s, i + 1, i + Len(term)) = term

NameWebApi ==
    << "w", "e", "b", "-", "a", "p", "i" >>

NameWebUi ==
    << "w", "e", "b", "-", "u", "i" >>

NameWeb ==
    << "W", "e", "b" >>

\* a name check_template_name rejects
NameBad ==
    << "w", "e", " ", "b" >>

\* a name with two characters check_template_name rejects
NameTwoBad ==
    << "o", " ", "k", " " >>

\* "ok-name_1"
NameOk ==
    << "o", "k", "-", "n", "a", "m", "e", "_", "1" >>

\* "bad name"
NameBadName ==
    << "b", "a", "d", " ", "n", "a", "m", "e" >>

Names ==
    { NameWebApi, NameWebUi, NameWeb }

DescRest ==
    << "R", "E", "S", "T", " ", "s", "e", "r", "v", "i", "c", "e" >>

Descriptions ==
    { None, Some(DescRest) }

TermWeb ==
    << "w", "e", "b" >>

TermRest ==
    << "r", "e", "s", "t" >>

TermREST ==
    << "R", "E", "S", "T" >>

TermI ==
    << "i" >>

Terms ==
    { TermWeb, TermRest, TermREST, TermI }

-----------------------------------------------------------------------------
(* Template *)

\* Template::Repo
Repo(nm, d, r, issue, setup) ==
    [kind |-> "Repo", name |-> nm, description |-> d, repo |-> r,
     issue |-> issue, setup |-> setup]

\* Template::Local
Local(nm, d, path) ==
    [kind |-> "Local", name |-> nm, description |-> d, path |-> path]

LocalPath ==
    "/templates/t"

\* the templates of the model
Templates ==
    { Repo(n, d, RepoOne, None, None) : n \in Names, d \in Descriptions }
        \cup { Local(n, d, LocalPath) : n \in Names, d \in Descriptions }

\* Template::name
name(t) ==
    t.name

\* Template::description
description(t) ==
    t.description

\* eq that compares every field, as a derived PartialEq would
eq_Derived(t, u) ==
    t = u

\* impl PartialEq for Template
eq(t, u) ==
    name(t) = name(u)

\* impl Ord for Template
cmp(t, u) ==
    str_cmp(name(t), name(u))

\* the characters check_template_name lets through
NameChars ==
    { Alphabet[i] : i \in 1..Len(Alphabet) } \ { " " }

\* check_template_name that counts the index from 1
check_template_name_OneBased(nm) ==
    LET bad == { i \in 1..Len(nm) : nm[i] \notin NameChars } IN
    IF bad = {} THEN None
    ELSE LET i == CHOOSE i \in bad : \A j \in bad : i <= j IN
         Some([c |-> nm[i], index |-> i])

\* check_template_name that accepts every name
check_template_name_Lax(nm) ==
    None

\* check_template_name: None for Ok(()), or the first offending character and its
\* index, counted from 0
check_template_name(nm) ==
    LET bad == { i \in 1..Len(nm) : nm[i] \notin NameChars } IN
    IF bad = {} THEN None
    ELSE LET i == CHOOSE i \in bad : \A j \in bad : i <= j IN
         Some([c |-> nm[i], index |-> i - 1])

-----------------------------------------------------------------------------
(* TemplateIndex: templates is a BTreeSet<Template>, here the sequence of its   *)
(* elements in iteration order                                                   *)

\* insert that puts the value in place of an equal one, as BTreeSet::replace does
insert_Replace(set, t) ==
    LET k == Cardinality({ i \in 1..Len(set) : cmp(set[i], t) = "Less" }) IN
    SubSeq(set, 1, k) \o << t >>
        \o SubSeq(set, k + 1 + Cardinality({ i \in 1..Len(set) : eq(set[i], t) }), Len(set))

\* insert that puts a new value at the end, as a Vec would
insert_Append(set, t) ==
    IF \E i \in 1..Len(set) : eq(set[i], t) THEN set ELSE Append(set, t)

\* BTreeSet::insert: a value equal to an element is dropped and the element stays;
\* another value goes to its place in the order
insert(set, t) ==
    IF \E i \in 1..Len(set) : eq(set[i], t)
    THEN set
    ELSE LET k == Cardinality({ i \in 1..Len(set) : cmp(set[i], t) = "Less" }) IN
         SubSeq(set, 1, k) \o << t >> \o SubSeq(set, k + 1, Len(set))

\* BTreeSet::remove(name.as_str()), through Borrow<str>
remove(set, nm) ==
    SelectSeq(set, LAMBDA t : str_cmp(name(t), nm) # "Equal")

\* toml::from_str::<TemplateIndex>: the records of the file are inserted one by one
RECURSIVE Deserialize(_)
Deserialize(records) ==
    IF records = <<>> THEN <<>>
    ELSE insert(Deserialize(SubSeq(records, 1, Len(records) - 1)), records[Len(records)])

\* Classify that tests the name first: an entry matching both goes to name_only
Classify_NameFirst(t, term) ==
    LET n    == contains(name(t), term)
        desc == description(t) # None /\ contains(description(t)[1], term)
    IN  IF n THEN "name_only"
        ELSE IF n /\ desc THEN "name_and_description"
        ELSE IF desc THEN "description_only"
        ELSE "none"

\* the closure of find: the bucket an entry goes to
Classify(t, term) ==
    LET n    == contains(name(t), term)
        desc == description(t) # None /\ contains(description(t)[1], term)
    IN  IF n /\ desc THEN "name_and_description"
        ELSE IF n THEN "name_only"
        ELSE IF desc THEN "description_only"
        ELSE "none"

\* struct FindResult
FindResult(both, name_only, description_only) ==
    [name_and_description |-> both, name_only |-> name_only,
     description_only |-> description_only]

\* TemplateIndex::find
find(set, term) ==
    FindResult(SelectSeq(set, LAMBDA t : Classify(t, term) = "name_and_description"),
               SelectSeq(set, LAMBDA t : Classify(t, term) = "name_only"),
               SelectSeq(set, LAMBDA t : Classify(t, term) = "description_only"))

\* find_exact that takes a name containing the query for a match
find_exact_Contains(set, nm) ==
    LET hits == { i \in 1..Len(set) : contains(name(set[i]), nm) } IN
    IF hits = {} THEN None
    ELSE Some(set[CHOOSE i \in hits : \A j \in hits : i <= j])

\* TemplateIndex::find_exact: the first element whose name is nm
find_exact(set, nm) ==
    LET hits == { i \in 1..Len(set) : name(set[i]) = nm } IN
    IF hits = {} THEN None
    ELSE Some(set[CHOOSE i \in hits : \A j \in hits : i <= j])

-----------------------------------------------------------------------------
(* FindResultComposite and the remote indexes of the config *)

\* the label Find gives the local index
LocalLabel ==
    "<local>"

\* the names a remote index can be added under
Labels ==
    { "r1", "r2", "local", LocalLabel }

\* struct RemoteIndex
RemoteIndex(label, r) ==
    [name |-> label, repo |-> r, path |-> "index.toml"]

\* the records of the index file the repository r holds
IndexIn(r) ==
    IF r = RepoOne
    THEN << Repo(NameWebUi, None, RepoOne, None, None),
            Repo(NameWebApi, Some(DescRest), RepoOne, None, None) >>
    ELSE << Repo(NameWebApi, None, RepoThree, None, None),
            Repo(NameWeb, Some(DescRest), RepoThree, None, None) >>

\* RemoteIndex::get_index, when the download and the parse succeed
get_index(ri) ==
    Deserialize(IndexIn(ri.repo))

\* .iter().map(|&it| (name, it)).collect()
Tag(bucket, label) ==
    [i \in 1..Len(bucket) |-> << label, bucket[i] >>]

\* compose that files the name-only hits under description-only and back
compose_Swapped(result, label) ==
    [name_and_description |-> Tag(result.name_and_description, label),
     name_only |-> Tag(result.description_only, label),
     description_only |-> Tag(result.name_only, label)]

\* FindResult::compose
compose(result, label) ==
    [name_and_description |-> Tag(result.name_and_description, label),
     name_only |-> Tag(result.name_only, label),
     description_only |-> Tag(result.description_only, label)]

\* merge_ref that puts the other result first
merge_ref_Front(self, other) ==
    [name_and_description |-> other.name_and_description \o self.name_and_description,
     name_only |-> other.name_only \o self.name_only,
     description_only |-> other.description_only \o self.description_only]

\* FindResultComposite::merge_ref
merge_ref(self, other) ==
    [name_and_description |-> self.name_and_description \o other.name_and_description,
     name_only |-> self.name_only \o other.name_only,
     description_only |-> self.description_only \o other.description_only]

\* for (remote_name, index) in remote_indexes.iter() { result.merge_ref(composed) }
RECURSIVE MergeAll(_, _, _)
MergeAll(result, indexes, term) ==
    IF indexes = <<>> THEN result
    ELSE MergeAll(merge_ref(result, compose(find(get_index(Head(indexes)), term),
                                            Head(indexes).name)),
                  Tail(indexes), term)

\* impl From<&str> for IndexName
IndexName(text) ==
    IF text = "local" THEN [kind |-> "Local"] ELSE [kind |-> "Remote", name |-> text]

\* find_template that goes on to the last index holding the name
RECURSIVE find_template_Last(_, _)
find_template_Last(indexes, nm) ==
    IF indexes = <<>> THEN None
    ELSE IF find_template_Last(Tail(indexes), nm) # None
    THEN find_template_Last(Tail(indexes), nm)
    ELSE find_exact(Head(indexes), nm)

\* find_template: the entry of the first index that holds the name
RECURSIVE find_template(_, _)
find_template(indexes, nm) ==
    IF indexes = <<>> THEN None
    ELSE IF find_exact(Head(indexes), nm) # None
    THEN find_exact(Head(indexes), nm)
    ELSE find_template(Tail(indexes), nm)

\* Position that takes the last remote index of that name
Position_Last(indexes, label) ==
    IF \E i \in 1..Len(indexes) : indexes[i].name = label
    THEN Some(CHOOSE i \in 1..Len(indexes) :
                /\ indexes[i].name = label
                /\ \A j \in (i + 1)..Len(indexes) : indexes[j].name # label)
    ELSE None

\* .iter().enumerate().find(|(_, index)| index.name == name)
Position(indexes, label) ==
    IF \E i \in 1..Len(indexes) : indexes[i].name = label
    THEN Some(CHOOSE i \in 1..Len(indexes) :
                /\ indexes[i].name = label
                /\ \A j \in 1..(i - 1) : indexes[j].name # label)
    ELSE None

-----------------------------------------------------------------------------
(* Template::one_line_summary: the text is the sequence of its pieces, the      *)
(* literals of the format strings and the values put between them               *)

Lit(text) ==
    [lit |-> text]

\* format!("for issue {}", it)
issue_text(issue) ==
    << Lit("for issue "), [num |-> ToString(issue)] >>

\* the extra_text of a Repo template
extra_text(d, issue) ==
    IF d # None /\ issue # None
    THEN << Lit(" "), [desc |-> d[1]], Lit(" "), Lit("[") >> \o issue_text(issue[1]) \o << Lit("]") >>
    ELSE IF d # None
    THEN << Lit(" "), [desc |-> d[1]] >>
    ELSE IF issue # None
    THEN << Lit("["), Lit("for issue ") >> \o issue_text(issue[1]) \o << Lit("]") >>
    ELSE <<>>

\* Template::one_line_summary
one_line_summary(t) ==
    IF t.kind = "Repo"
    THEN << [name |-> t.name], Lit(" => "), [link |-> link(t.repo)] >>
             \o extra_text(t.description, t.issue)
    ELSE << [name |-> t.name], Lit(" => "), [path |-> t.path] >>
             \o (IF t.description # None THEN << Lit(" "), [desc |-> t.description[1]] >> ELSE <<>>)

-----------------------------------------------------------------------------
VARIABLES
    catalog,      \* the references the commands of this run resolve
    running,      \* the CLI processes that were started on the cache root
    now,          \* SystemTime::now(), in seconds
    remote,       \* url -> the archive the server holds now
    changed,      \* url -> TRUE once the server's archive was replaced
    faults,       \* the operations the environment has made fail so far
    cache_exists, \* the cache root directory exists
    art,          \* artifact path -> None | Some([data, mtime])
    etagf,        \* etag path -> None | Some(token)
    dirs,         \* extracted directory name -> None | Some(set of entries)
    pc,           \* process -> the place in download / download_file it is at
    ref,          \* process -> the RepoDef of the call
    resp,         \* process -> the response being read (download_file)
    out_dir,      \* process -> the out_dir of the call
    result,       \* process -> what the last call returned
    reqs,         \* process -> the requests the call has sent
    seen,         \* process -> what the freshness check of the call saw
    pre,          \* process -> artifact, etag and directories when the call began
    unpacked,     \* process -> the archive the call unpacked, if it unpacked one
    first,        \* reference -> the path its first successful call returned, and
                  \* the artifact bytes the path was computed from
    templates,    \* TemplateIndex::templates of the local index
    for_remote,   \* TemplateIndex::for_remote of the local index
    remote_indexes, \* Config::remote_indexes
    shuffled,     \* some entry was inserted before an entry that was there already
    out           \* what the last command on the index did and found

indexVars ==
    << templates, for_remote, remote_indexes, shuffled, out >>

envVars ==
    << catalog, running, now, remote, changed, indexVars >>

fsVars ==
    << cache_exists, art, etagf, dirs >>

callVars ==
    << ref, resp, out_dir, reqs, seen, pre, unpacked >>

endVars ==
    << pc, result, first, faults >>

vars ==
    << catalog, running, now, remote, changed, faults, cache_exists, art, etagf, dirs,
       pc, ref, resp, out_dir, result, reqs, seen, pre, unpacked, first,
       templates, for_remote, remote_indexes, shuffled, out >>

\* everything but the index
cacheVars ==
    << catalog, running, now, remote, changed, fsVars, callVars, endVars >>

NoResp ==
    [status |-> "none", etag |-> "none", body |-> <<>>]

NoResult ==
    [status |-> "none", path |-> ""]

NotSeen ==
    [exists |-> FALSE, age |-> 0, checked |-> FALSE]

FsSnapshot ==
    [art |-> art, etagf |-> etagf, dirs |-> dirs]

EmptyResult ==
    FindResult(<<>>, <<>>, <<>>)

\* what the last command did: its argument, whether it ended without a panic, and
\* what it found or was given
Out(cmd, arg, ok, found, template) ==
    [cmd |-> cmd, arg |-> arg, ok |-> ok, found |-> found, template |-> template,
     err |-> None, label |-> "", composite |-> compose(EmptyResult, ""), summary |-> <<>>,
     index |-> None, fetched |-> 0, why |-> ""]

NoOut ==
    Out("none", <<>>, TRUE, EmptyResult, None)

\* an index file written by hand: the records are in no order
IndexFiles ==
    { <<>>,
      << Local(NameWebUi, None, LocalPath), Repo(NameWebApi, Some(DescRest), RepoOne, None, None) >> }

\* load_local_index
InitIndex ==
    /\ \E f \in IndexFiles :
          /\ templates = Deserialize(f)
          /\ shuffled = (Deserialize(f) # f)
    /\ for_remote \in BOOLEAN
    /\ remote_indexes = <<>>
    /\ out = NoOut

\* no command on the index has run
IndexIdle ==
    /\ templates = <<>>
    /\ for_remote = FALSE
    /\ remote_indexes = <<>>
    /\ shuffled = FALSE
    /\ out = NoOut

\* an empty cache root, and nothing called yet
InitCache ==
    /\ now = 0
    /\ changed = [u \in Urls |-> FALSE]
    /\ cache_exists = FALSE
    /\ art = [f \in TarPaths |-> None]
    /\ etagf = [f \in EtagPaths |-> None]
    /\ dirs = [d \in DirNames |-> None]
    /\ pc = [p \in Procs |-> "idle"]
    /\ ref = [p \in Procs |-> RepoOne]
    /\ resp = [p \in Procs |-> NoResp]
    /\ out_dir = [p \in Procs |-> ""]
    /\ result = [p \in Procs |-> NoResult]
    /\ reqs = [p \in Procs |-> <<>>]
    /\ seen = [p \in Procs |-> NotSeen]
    /\ pre = [p \in Procs |-> FsSnapshot]
    /\ unpacked = [p \in Procs |-> None]
    /\ first = [r \in Refs |-> None]

\* the urls of the references of the catalog
CatalogUrls ==
    { archive_link(r) : r \in catalog }

\* one reference is resolved, in an environment that can make operations fail
Init ==
    /\ catalog = { RepoOne }
    /\ running = { "main" }
    /\ remote \in { f \in [Urls -> Archives] :
                      \A u \in Urls \ { archive_link(RepoOne) } : f[u] = ArchOne }
    /\ faults = 0
    /\ InitCache
    /\ IndexIdle

-----------------------------------------------------------------------------
(* How a step of a call ends *)

\* the call goes on at label
Continue(p, label) ==
    /\ pc' = [pc EXCEPT ![p] = label]
    /\ UNCHANGED << result, first, faults >>

\* return Err(DownloadError::Reqwest) or Err(DownloadError::Io); kind "panic": the
\* process aborts at an unwrap
Err(p, kind) ==
    /\ pc' = [pc EXCEPT ![p] = "idle"]
    /\ result' = [result EXCEPT ![p] = [status |-> kind, path |-> ""]]
    /\ UNCHANGED << first, faults >>

\* the same, for an operation the environment makes fail
Fault(p, kind) ==
    /\ faults < MaxFaults
    /\ faults' = faults + 1
    /\ pc' = [pc EXCEPT ![p] = "idle"]
    /\ result' = [result EXCEPT ![p] = [status |-> kind, path |-> ""]]
    /\ UNCHANGED first

\* return Ok(out_dir); data is the content of the artifact that was hashed
ReturnOk(p, path, data) ==
    /\ pc' = [pc EXCEPT ![p] = "idle"]
    /\ result' = [result EXCEPT ![p] = [status |-> "ok", path |-> path]]
    /\ first' = [first EXCEPT ![ref[p]] =
           IF @ = None THEN Some([path |-> path, data |-> data]) ELSE @]
    /\ UNCHANGED faults

-----------------------------------------------------------------------------
(* RepoDef::download *)

\* a command of the CLI calls download on a reference of its catalog
Call(p, r) ==
    /\ pc[p] = "idle"
    /\ p \in running
    /\ r \in catalog
    /\ pc' = [pc EXCEPT ![p] = "create_cache"]
    /\ ref' = [ref EXCEPT ![p] = r]
    /\ resp' = [resp EXCEPT ![p] = NoResp]
    /\ out_dir' = [out_dir EXCEPT ![p] = ""]
    /\ result' = [result EXCEPT ![p] = [status |-> "running", path |-> ""]]
    /\ reqs' = [reqs EXCEPT ![p] = <<>>]
    /\ seen' = [seen EXCEPT ![p] = NotSeen]
    /\ pre' = [pre EXCEPT ![p] = FsSnapshot]
    /\ unpacked' = [unpacked EXCEPT ![p] = None]
    /\ UNCHANGED << envVars, fsVars, first, faults >>

\* if !cache.exists() { fs::create_dir_all(cache)?; }
CreateCache(p) ==
    /\ pc[p] = "create_cache"
    /\ \/ /\ cache_exists
          /\ Continue(p, "check")
          /\ UNCHANGED cache_exists
       \/ /\ ~cache_exists
          /\ cache_exists' = TRUE
          /\ Continue(p, "check")
       \/ /\ ~cache_exists
          /\ Fault(p, "io")
          /\ UNCHANGED cache_exists
    /\ UNCHANGED << envVars, art, etagf, dirs, callVars >>

\* IsStale without the 60 seconds: every artifact older than its write is refetched
IsStale_NoWindow(t, created) ==
    t > created

\* IsStale that counts an artifact of exactly 60 seconds as stale
IsStale_Inclusive(t, created) ==
    t >= created + FreshSecs

\* SystemTime::now() > created + Duration::from_secs(60)
IsStale(t, created) ==
    t > created + FreshSecs

\* if path.exists() { path.metadata()?.modified()?; download_file if stale }
\* else { download_file }
CheckFresh(p) ==
    LET path == TarPath(cache_file(ref[p])) IN
    /\ pc[p] = "check"
    /\ \/ /\ art[path] # None
          /\ seen' = [seen EXCEPT ![p] =
                 [exists |-> TRUE, age |-> now - art[path][1].mtime, checked |-> TRUE]]
          /\ Continue(p, IF IsStale(now, art[path][1].mtime) THEN "send" ELSE "hash")
       \/ /\ art[path] # None
          /\ Fault(p, "io")
          /\ UNCHANGED seen
       \/ /\ art[path] = None
          /\ seen' = [seen EXCEPT ![p] = [exists |-> FALSE, age |-> 0, checked |-> TRUE]]
          /\ Continue(p, "send")
    /\ UNCHANGED << envVars, fsVars, ref, resp, out_dir, reqs, pre, unpacked >>

-----------------------------------------------------------------------------
(* download_file *)

\* etag_f.and_then(|it| if it.exists() { fs::read_to_string(it).ok() } else { None }):
\* the values prev_etag can take; a read that fails gives None
PrevEtag(etag_f) ==
    IF etagf[etag_f] # None THEN { etagf[etag_f], None } ELSE { None }

\* req.header(IF_NONE_MATCH, etag) for the etag of prev_etag, if any
Request(url, prev_etag) ==
    [url |-> url, if_none_match |-> prev_etag]

\* the server answers 304 to a request whose If-None-Match is its current ETag
NotModified(req) ==
    req.if_none_match = Some(ServerEtag(req.url, remote[req.url]))

\* the ETag header of a 200 response: absent, text, or not representable as text
EtagHeaders ==
    { "none", "text", "opaque" }

\* the responses the server can give to req
Responses(req) ==
    IF NotModified(req)
    THEN { [status |-> "304", etag |-> "none", body |-> <<>>] }
    ELSE { [status |-> "200", etag |-> h, body |-> remote[req.url]] : h \in EtagHeaders }

\* AfterStatus without the early return: a 304 response is written like a 200 one
AfterStatus_NoReturn(status) ==
    "write_etag"

\* if resp.status() == StatusCode::NOT_MODIFIED { return Ok(()) }: where the call
\* goes on after a response with this status
AfterStatus(status) ==
    IF status = "304" THEN "hash" ELSE "write_etag"

\* let resp = req.send()?.error_for_status()?;
\* if resp.status() == StatusCode::NOT_MODIFIED { return Ok(()) }
Send(p) ==
    LET etag_f == EtagPath(cache_file(ref[p]))
        url    == archive_link(ref[p])
    IN
    /\ pc[p] = "send"
    /\ \E prev_etag \in PrevEtag(etag_f) :
          LET req       == Request(url, prev_etag)
              read_lost == IF etagf[etag_f] # None /\ prev_etag = None THEN 1 ELSE 0
          IN
          /\ faults + read_lost <= MaxFaults
          /\ reqs' = [reqs EXCEPT ![p] = Append(@, req)]
          /\ \/ /\ faults + read_lost < MaxFaults
                /\ faults' = faults + read_lost + 1
                /\ pc' = [pc EXCEPT ![p] = "idle"]
                /\ result' = [result EXCEPT ![p] = [status |-> "reqwest", path |-> ""]]
                /\ UNCHANGED resp
             \/ /\ faults' = faults + read_lost
                /\ \E r \in Responses(req) :
                      /\ resp' = [resp EXCEPT ![p] = r]
                      /\ pc' = [pc EXCEPT ![p] = AfterStatus(r.status)]
                /\ UNCHANGED result
    /\ UNCHANGED << envVars, fsVars, ref, out_dir, seen, pre, unpacked, first >>

\* headers.get(ETAG).and_then(|it| Some(it.to_str().unwrap()));
\* if let Some(etag) = etag { fs::write(etag_f, etag)? }
WriteEtag(p) ==
    LET etag_f == EtagPath(cache_file(ref[p]))
        url    == archive_link(ref[p])
    IN
    /\ pc[p] = "write_etag"
    /\ \/ /\ resp[p].etag = "opaque"
          /\ Err(p, "panic")
          /\ UNCHANGED etagf
       \/ /\ resp[p].etag = "none"
          /\ Continue(p, "create")
          /\ UNCHANGED etagf
       \/ /\ resp[p].etag = "text"
          /\ etagf' = [etagf EXCEPT ![etag_f] = Some(ServerEtag(url, resp[p].body))]
          /\ Continue(p, "create")
       \/ /\ resp[p].etag = "text"
          /\ Fault(p, "io")
          /\ UNCHANGED etagf
    /\ UNCHANGED << envVars, cache_exists, art, dirs, callVars >>

\* let mut f = fs::File::create(path)?  (an existing file is truncated)
CreateFile(p) ==
    LET path == TarPath(cache_file(ref[p])) IN
    /\ pc[p] = "create"
    /\ \/ /\ art' = [art EXCEPT ![path] = Some([data |-> <<>>, mtime |-> now])]
          /\ Continue(p, "body")
       \/ /\ Fault(p, "io")
          /\ UNCHANGED art
    /\ UNCHANGED << envVars, cache_exists, etagf, dirs, callVars >>

\* let bytes = resp.bytes()?
ReadBody(p) ==
    /\ pc[p] = "body"
    /\ \/ Continue(p, "write")
       \/ Fault(p, "reqwest")
    /\ UNCHANGED << envVars, fsVars, callVars >>

\* f.write_all(&bytes)?  (a write that fails leaves a part of the bytes)
WriteAll(p) ==
    LET path == TarPath(cache_file(ref[p])) IN
    /\ pc[p] = "write"
    /\ \/ /\ art' = [art EXCEPT ![path] = Some([data |-> resp[p].body, mtime |-> now])]
          /\ Continue(p, "hash")
       \/ /\ \E part \in ProperPrefixes(resp[p].body) :
                art' = [art EXCEPT ![path] = Some([data |-> part, mtime |-> now])]
          /\ Fault(p, "io")
    /\ UNCHANGED << envVars, cache_exists, etagf, dirs, callVars >>

-----------------------------------------------------------------------------
(* RepoDef::download, after the freshness policy *)

\* out_dir_exists that asks for a directory with something in it
out_dir_exists_NonEmpty(dir) ==
    /\ dirs[dir] # None
    /\ dirs[dir][1] # {}

\* out_dir_exists that never finds the directory: every call extracts again
out_dir_exists_Never(dir) ==
    FALSE

\* out_dir.exists()
out_dir_exists(dir) ==
    dirs[dir] # None

\* let hash = hash(&path)  (fs::read(path).unwrap());
\* let out_dir = ...; if out_dir.exists() { return Ok(out_dir) }
Hash(p) ==
    LET file == cache_file(ref[p])
        path == TarPath(file)
    IN
    /\ pc[p] = "hash"
    /\ \/ /\ art[path] = None
          /\ Err(p, "panic")
          /\ UNCHANGED out_dir
       \/ /\ art[path] # None
          /\ Fault(p, "panic")
          /\ UNCHANGED out_dir
       \/ /\ art[path] # None
          /\ LET dir == OutDir(file, hash_buffer(art[path][1].data)) IN
             /\ out_dir' = [out_dir EXCEPT ![p] = dir]
             /\ IF out_dir_exists(dir)
                THEN ReturnOk(p, dir, art[path][1].data)
                ELSE Continue(p, "mkdir")
    /\ UNCHANGED << envVars, fsVars, ref, resp, reqs, seen, pre, unpacked >>

\* fs::create_dir_all(&out_dir)?
Mkdir(p) ==
    /\ pc[p] = "mkdir"
    /\ \/ /\ dirs' = [dirs EXCEPT ![out_dir[p]] = IF @ = None THEN Some({}) ELSE @]
          /\ Continue(p, "unpack")
       \/ /\ Fault(p, "io")
          /\ UNCHANGED dirs
    /\ UNCHANGED << envVars, cache_exists, art, etagf, callVars >>

\* the entries of a stream before its end mark
EntriesOf(data) ==
    SelectSeq(data, LAMBDA e : e # EndMark)

\* the stream is whole: it ends with the end mark
IsComplete(data) ==
    /\ data # <<>>
    /\ data[Len(data)] = EndMark

\* the first n entries of the stream, as a.unpack writes them under out_dir
Extracted(data, n) ==
    { EntriesOf(data)[i] : i \in 1..n }

\* let tar_gz = fs::File::open(&path)?; GzDecoder; a.unpack(&out_dir)?
\* unpack writes the entries in order; it fails at an entry the environment makes
\* fail, or at the end of a stream that was cut short
Unpack(p) ==
    LET path == TarPath(cache_file(ref[p]))
        dir  == out_dir[p]
    IN
    /\ pc[p] = "unpack"
    /\ \/ /\ Fault(p, "io")
          /\ UNCHANGED << dirs, unpacked >>
       \/ /\ art[path] # None
          /\ dirs[dir] # None
          /\ LET data == art[path][1].data
                 all  == Len(EntriesOf(data))
             IN
             /\ unpacked' = [unpacked EXCEPT ![p] = Some(data)]
             /\ \/ /\ IsComplete(data)
                   /\ dirs' = [dirs EXCEPT ![dir] = Some(@[1] \cup Extracted(data, all))]
                   /\ Continue(p, "flatten")
                \/ /\ ~IsComplete(data)
                   /\ dirs' = [dirs EXCEPT ![dir] = Some(@[1] \cup Extracted(data, all))]
                   /\ Err(p, "io")
                \/ /\ \E n \in 0..(all - 1) :
                         dirs' = [dirs EXCEPT ![dir] = Some(@[1] \cup Extracted(data, n))]
                   /\ Fault(p, "io")
    /\ UNCHANGED << envVars, cache_exists, art, etagf, ref, resp, out_dir,
                    reqs, seen, pre >>

-----------------------------------------------------------------------------
(* flatten *)

\* out_dir.read_dir(): the entries directly under out_dir
TopLevel(tree) ==
    { e \in tree : Len(e.path) = 1 }

\* entry.path().read_dir(): the entries directly under entry
ChildrenOf(tree, entry) ==
    { c \in tree : Len(c.path) = 2 /\ c.path[1] = entry.path[1] }

\* out_dir.join(child.file_name())
Hoisted(c) ==
    Entry(<< c.path[2] >>, c.dir)

\* fs::rename(src, dest) succeeds: dest is free, or a file replaced by a file,
\* or an empty directory replaced by a directory
RenameOk(tree, c) ==
    \A e \in TopLevel(tree) :
        e.path = Hoisted(c).path =>
            /\ e.dir = c.dir
            /\ ChildrenOf(tree, e) = {}

\* the tree after the children in moved were renamed into out_dir
AfterRename(tree, moved) ==
    { e \in tree \ moved : \A c \in moved : e.path # Hoisted(c).path }
        \cup { Hoisted(c) : c \in moved }

\* AfterRemove without the removal: the wrapper stays in out_dir
AfterRemove_Kept(tree, entry) ==
    tree

\* fs::remove_dir(entry.path())
AfterRemove(tree, entry) ==
    tree \ { entry }

\* flatten(&out_dir)?; Ok(out_dir)
\* read_dir gives the entries in no particular order: any entry can be the first,
\* and the children are renamed in any order
Flatten(p) ==
    LET dir == out_dir[p] IN
    /\ pc[p] = "flatten"
    /\ \/ /\ Fault(p, "io")
          /\ UNCHANGED dirs
       \/ /\ dirs[dir] # None
          /\ TopLevel(dirs[dir][1]) = {}
          /\ Err(p, "panic")
          /\ UNCHANGED dirs
       \/ /\ dirs[dir] # None
          /\ \E entry \in TopLevel(dirs[dir][1]) :
                LET tree     == dirs[dir][1]
                    children == ChildrenOf(tree, entry)
                    movable  == { c \in children : RenameOk(tree, c) }
                IN
                \/ /\ ~entry.dir
                   /\ Err(p, "io")
                   /\ UNCHANGED dirs
                \/ /\ entry.dir
                   /\ \E moved \in SUBSET movable :
                         /\ moved # children
                         /\ dirs' = [dirs EXCEPT ![dir] = Some(AfterRename(tree, moved))]
                         /\ IF moved = movable /\ movable # children
                            THEN Err(p, "io")
                            ELSE Fault(p, "io")
                \/ /\ entry.dir
                   /\ movable = children
                   /\ dirs' = [dirs EXCEPT ![dir] = Some(AfterRename(tree, children))]
                   /\ Fault(p, "io")
                \/ /\ entry.dir
                   /\ movable = children
                   /\ dirs' = [dirs EXCEPT ![dir] =
                          Some(AfterRemove(AfterRename(tree, children), entry))]
                   /\ ReturnOk(p, dir, unpacked[p][1])
    /\ UNCHANGED << envVars, cache_exists, art, etagf, callVars >>

-----------------------------------------------------------------------------
(* The environment *)

\* time passes
Tick ==
    /\ now + TickStep <= MaxTime
    /\ now' = now + TickStep
    /\ UNCHANGED << catalog, running, remote, changed, indexVars, fsVars, callVars, endVars >>

\* the repository behind url gets a new archive
RemoteChange(url) ==
    /\ url \in CatalogUrls
    /\ \E a \in Archives \ { remote[url] } :
          remote' = [remote EXCEPT ![url] = a]
    /\ changed' = [changed EXCEPT ![url] = TRUE]
    /\ UNCHANGED << catalog, running, now, indexVars, fsVars, callVars, endVars >>

Next ==
    \/ \E p \in Procs, r \in Refs : Call(p, r)
    \/ \E p \in Procs : CreateCache(p)
    \/ \E p \in Procs : CheckFresh(p)
    \/ \E p \in Procs : Send(p)
    \/ \E p \in Procs : WriteEtag(p)
    \/ \E p \in Procs : CreateFile(p)
    \/ \E p \in Procs : ReadBody(p)
    \/ \E p \in Procs : WriteAll(p)
    \/ \E p \in Procs : Hash(p)
    \/ \E p \in Procs : Mkdir(p)
    \/ \E p \in Procs : Unpack(p)
    \/ \E p \in Procs : Flatten(p)
    \/ Tick
    \/ \E url \in Urls : RemoteChange(url)

Spec ==
    Init /\ [][Next]_vars

-----------------------------------------------------------------------------
(* Several references on one cache root, in an environment where nothing fails   *)
(* and the servers keep their archives                                           *)

InitShare ==
    /\ catalog = Refs
    /\ running = { "main" }
    /\ remote \in [Urls -> Archives]
    /\ faults = MaxFaults
    /\ InitCache
    /\ IndexIdle

NextShare ==
    \/ \E p \in Procs, r \in Refs : Call(p, r)
    \/ \E p \in Procs : CreateCache(p)
    \/ \E p \in Procs : CheckFresh(p)
    \/ \E p \in Procs : Send(p)
    \/ \E p \in Procs : WriteEtag(p)
    \/ \E p \in Procs : CreateFile(p)
    \/ \E p \in Procs : ReadBody(p)
    \/ \E p \in Procs : WriteAll(p)
    \/ \E p \in Procs : Hash(p)
    \/ \E p \in Procs : Mkdir(p)
    \/ \E p \in Procs : Unpack(p)
    \/ \E p \in Procs : Flatten(p)
    \/ Tick

SpecShare ==
    InitShare /\ [][NextShare]_vars

-----------------------------------------------------------------------------
(* One reference whose server holds an archive of any shape: no entry, one       *)
(* top-level directory, or two; nothing fails and the server keeps its archive   *)

InitShape ==
    /\ catalog = { RepoOne }
    /\ running = { "main" }
    /\ remote \in { f \in [Urls -> Archives \cup ShapeArchives] :
                      /\ f[archive_link(RepoOne)] \in ShapeArchives \cup { ArchOne }
                      /\ \A u \in Urls \ { archive_link(RepoOne) } : f[u] = ArchOne }
    /\ faults = MaxFaults
    /\ InitCache
    /\ IndexIdle

SpecShape ==
    InitShape /\ [][NextShare]_vars

-----------------------------------------------------------------------------
(* Two CLI processes resolve the same reference on one cache root; nothing      *)
(* fails and the server keeps its archive                                        *)

InitRace ==
    /\ catalog = { RepoOne }
    /\ running = Procs
    /\ remote = [u \in Urls |-> ArchOne]
    /\ faults = MaxFaults
    /\ InitCache
    /\ IndexIdle

\* the calls of the two processes interleave within one freshness window
NextRace ==
    \/ \E p \in Procs, r \in Refs : Call(p, r)
    \/ \E p \in Procs : CreateCache(p)
    \/ \E p \in Procs : CheckFresh(p)
    \/ \E p \in Procs : Send(p)
    \/ \E p \in Procs : WriteEtag(p)
    \/ \E p \in Procs : CreateFile(p)
    \/ \E p \in Procs : ReadBody(p)
    \/ \E p \in Procs : WriteAll(p)
    \/ \E p \in Procs : Hash(p)
    \/ \E p \in Procs : Mkdir(p)
    \/ \E p \in Procs : Unpack(p)
    \/ \E p \in Procs : Flatten(p)

SpecRace ==
    InitRace /\ [][NextRace]_vars

-----------------------------------------------------------------------------
(* The commands of the CLI on the local index (main.rs). A command loads the    *)
(* index, edits or searches it and, if it edited it, saves it.                  *)

\* the command panics (err!) before the index is saved
Panic(cmd, arg) ==
    /\ out' = Out(cmd, arg, FALSE, EmptyResult, None)
    /\ UNCHANGED << templates, shuffled >>

\* err!("Invalid name: {}", err): the command panics with the error of
\* check_template_name
InvalidName(cmd, arg) ==
    /\ out' = [Out(cmd, arg, FALSE, EmptyResult, None) EXCEPT !.err = check_template_name(arg)]
    /\ UNCHANGED << templates, shuffled >>

\* the command inserts t and saves the index
InsertAndSave(cmd, t) ==
    /\ templates' = insert(templates, t)
    /\ shuffled' = (shuffled \/ templates' \notin { templates, Append(templates, t) })
    /\ out' = Out(cmd, name(t), TRUE, EmptyResult, Some(t))

\* Subcommand::AddToIndex
AddToIndex(nm, d, r, issue) ==
    /\ IF find_exact(templates, nm) # None
       THEN Panic("add", nm)
       ELSE IF check_template_name(nm) # None
       THEN InvalidName("add", nm)
       ELSE InsertAndSave("add", Repo(nm, d, r, issue, None))
    /\ UNCHANGED << for_remote, remote_indexes, cacheVars >>

\* AddLocalToIndex that does not look at for_remote
AddLocalToIndex_NoFlag(nm, d, path) ==
    /\ templates' = insert(templates, Local(nm, d, path))
    /\ shuffled' = shuffled
    /\ out' = [NoOut EXCEPT !.cmd = "add_local", !.arg = nm]
    /\ UNCHANGED << for_remote, remote_indexes, catalog, running, now, remote, changed, faults,
                    cache_exists, art, etagf, dirs, pc, ref, resp, out_dir, result,
                    reqs, seen, pre, unpacked, first >>

\* Subcommand::AddLocalToIndex
AddLocalToIndex(nm, d, path) ==
    /\ IF for_remote
       THEN Panic("add_local", nm)
       ELSE IF check_template_name(nm) # None
       THEN InvalidName("add_local", nm)
       ELSE IF find_exact(templates, nm) # None
       THEN Panic("add_local", nm)
       ELSE InsertAndSave("add_local", Local(nm, d, path))
    /\ UNCHANGED << for_remote, remote_indexes, cacheVars >>

\* Subcommand::RemoveFromIndex
RemoveFromIndex(nm) ==
    /\ IF check_template_name(nm) # None
       THEN InvalidName("remove", nm)
       ELSE IF remove(templates, nm) = templates
       THEN Panic("remove", nm)
       ELSE /\ templates' = remove(templates, nm)
            /\ out' = Out("remove", nm, TRUE, EmptyResult, None)
            /\ UNCHANGED shuffled
    /\ UNCHANGED << for_remote, remote_indexes, cacheVars >>

\* Subcommand::Find: the local index, then every remote index of the config in
\* its order; get_index(..).expect("Cannot get index") ends the command
Find(term) ==
    /\ \E got \in (IF remote_indexes = <<>> THEN { TRUE } ELSE BOOLEAN) :
          out' = IF got
                 THEN [Out("find", term, TRUE, find(templates, term), None)
                         EXCEPT !.composite =
                             MergeAll(compose(find(templates, term), LocalLabel),
                                      remote_indexes, term)]
                 ELSE Out("find", term, FALSE, EmptyResult, None)
    /\ UNCHANGED << templates, shuffled, for_remote, remote_indexes, cacheVars >>

\* the command ends at err! or expect, for the reason why, after got remote
\* indexes were read
Abort(index, nm, got, why) ==
    [Out("new", nm, FALSE, EmptyResult, None)
        EXCEPT !.index = index, !.fetched = got, !.why = why]

\* the index the template is looked up in and the template found there, once
\* get_all_remote_indexes has returned indexes; opened tells whether the
\* get_index of the index named with --index succeeds
Lookup(index, nm, indexes, opened) ==
    IF index = None
    THEN IF find_exact(templates, nm) # None
         THEN [why |-> "", template |-> find_exact(templates, nm)]
         ELSE [why |-> "", template |-> find_template(indexes, nm)]
    ELSE IF IndexName(index[1]).kind = "Local"
    THEN [why |-> "", template |-> find_exact(templates, nm)]
    ELSE IF Position(remote_indexes, IndexName(index[1]).name) = None
    THEN [why |-> "Invalid index", template |-> None]
    ELSE IF ~opened
    THEN [why |-> "Cannot get index", template |-> None]
    ELSE [why |-> "",
          template |-> find_exact(
              get_index(remote_indexes[Position(remote_indexes, IndexName(index[1]).name)[1]]),
              nm)]

\* Subcommand::New, up to the template the name resolves to; the directory is
\* free. get_all_remote_indexes reads every remote index of the config in order
\* and stops at the first that cannot be read.
New(index, nm) ==
    /\ IF check_template_name(nm) # None
       THEN /\ out' = [Abort(index, nm, 0, "Invalid name")
                          EXCEPT !.err = check_template_name(nm)]
            /\ UNCHANGED << templates, shuffled >>
       ELSE /\ \E got \in 0..Len(remote_indexes),
                  opened \in (IF index = None THEN { TRUE } ELSE BOOLEAN) :
                  LET indexes == [i \in 1..Len(remote_indexes) |-> get_index(remote_indexes[i])]
                      found   == Lookup(index, nm, indexes, opened)
                  IN  out' = IF got < Len(remote_indexes)
                             THEN Abort(index, nm, got, "Cannot get indexes")
                             ELSE IF found.why # ""
                             THEN Abort(index, nm, got, found.why)
                             ELSE IF found.template = None
                             THEN Abort(index, nm, got, "Unknown template")
                             ELSE [Out("new", nm, TRUE, EmptyResult, found.template)
                                     EXCEPT !.index = index, !.fetched = got]
            /\ UNCHANGED << templates, shuffled >>
    /\ UNCHANGED << for_remote, remote_indexes, cacheVars >>

\* a record was added by hand at the end of the index file, and the next command
\* loads the file: toml::from_str inserts the records one by one
LoadIndex(rec) ==
    /\ templates' = Deserialize(Append(templates, rec))
    /\ shuffled' = (shuffled \/ templates' \notin { templates, Append(templates, rec) })
    /\ out' = Out("load", name(rec), TRUE, EmptyResult, Some(rec))
    /\ UNCHANGED << for_remote, remote_indexes, cacheVars >>

\* the names the commands that edit the index are given
EditNames ==
    Names \cup { NameBad }

\* the names the command that looks a template up is given
LookupNames ==
    Names \cup { TermWeb, NameBad, NameTwoBad, NameOk, NameBadName }

NextIndex ==
    \/ \E nm \in EditNames, d \in Descriptions : AddToIndex(nm, d, RepoOne, None)
    \/ \E nm \in EditNames, d \in Descriptions : AddLocalToIndex(nm, d, LocalPath)
    \/ \E nm \in EditNames : RemoveFromIndex(nm)
    \/ \E term \in Terms : Find(term)
    \/ \E nm \in LookupNames : New(None, nm)
    \/ \E rec \in Templates : LoadIndex(rec)

\* the commands on the index, with the cache left alone
InitLocalIndex ==
    /\ catalog = { RepoOne }
    /\ running = { "main" }
    /\ remote = [u \in Urls |-> ArchOne]
    /\ faults = 0
    /\ InitCache
    /\ InitIndex

SpecIndex ==
    InitLocalIndex /\ [][NextIndex]_vars

\* Subcommand::List
List ==
    /\ out' = [Out("list", <<>>, TRUE, EmptyResult, None)
                 EXCEPT !.summary = [i \in 1..Len(templates) |-> one_line_summary(templates[i])]]
    /\ UNCHANGED << templates, shuffled, for_remote, remote_indexes, cacheVars >>

\* Subcommand::AddRemoteIndex
AddRemoteIndex(label, r) ==
    /\ Len(remote_indexes) < MaxRemotes
    /\ IF label = "local"
       THEN /\ out' = [Out("add_remote", <<>>, FALSE, EmptyResult, None) EXCEPT !.label = label]
            /\ UNCHANGED remote_indexes
       ELSE /\ remote_indexes' = Append(remote_indexes, RemoteIndex(label, r))
            /\ out' = [Out("add_remote", <<>>, TRUE, EmptyResult, None) EXCEPT !.label = label]
    /\ UNCHANGED << templates, shuffled, for_remote, cacheVars >>

\* Vec::remove
RemoveAt(indexes, i) ==
    [j \in 1..(Len(indexes) - 1) |-> IF j < i THEN indexes[j] ELSE indexes[j + 1]]

\* Subcommand::RemoveRemoteIndex
RemoveRemoteIndex(label) ==
    /\ IF label = "local" \/ Position(remote_indexes, label) = None
       THEN /\ out' = [Out("remove_remote", <<>>, FALSE, EmptyResult, None) EXCEPT !.label = label]
            /\ UNCHANGED remote_indexes
       ELSE /\ remote_indexes' = RemoveAt(remote_indexes, Position(remote_indexes, label)[1])
            /\ out' = [Out("remove_remote", <<>>, TRUE, EmptyResult, None) EXCEPT !.label = label]
    /\ UNCHANGED << templates, shuffled, for_remote, cacheVars >>

\* the issue a template is given
Issues ==
    { None, Some(7) }

\* the local index files the listing and the search over several indexes start from
SummaryFiles ==
    { << Repo(NameWeb, d, RepoThree, i, None), Local(NameWebUi, d, LocalPath) >> :
        d \in Descriptions, i \in Issues }

\* the repositories a remote index is added from
IndexRepos ==
    { RepoOne, RepoThree }

\* the values of --index: none, or the name of an index
Scopes ==
    { None } \cup { Some(label) : label \in Labels }

NextRemotes ==
    \/ \E index \in Scopes, nm \in EditNames : New(index, nm)
    \/ \E label \in Labels, r \in IndexRepos : AddRemoteIndex(label, r)
    \/ \E label \in Labels : RemoveRemoteIndex(label)
    \/ \E term \in Terms : Find(term)
    \/ List

\* the commands on the config and the commands that read the indexes
InitRemotes ==
    /\ catalog = { RepoOne }
    /\ running = { "main" }
    /\ remote = [u \in Urls |-> ArchOne]
    /\ faults = 0
    /\ InitCache
    /\ \E f \in SummaryFiles :
          /\ templates = Deserialize(f)
          /\ shuffled = (Deserialize(f) # f)
    /\ for_remote = FALSE
    /\ remote_indexes = <<>>
    /\ out = NoOut

SpecRemotes ==
    InitRemotes /\ [][NextRemotes]_vars

-----------------------------------------------------------------------------
(* The commands that edit the index, on an index file that was written by hand  *)
(* and holds a name check_template_name would refuse                             *)

\* the index files: toml::from_str checks no name
LoadedFiles ==
    { << Local(NameBad, None, LocalPath), Repo(NameWebApi, Some(DescRest), RepoOne, None, None) >>,
      << Repo(NameWeb, None, RepoThree, None, None) >> }

NextEdit ==
    \/ \E nm \in EditNames, d \in Descriptions : AddToIndex(nm, d, RepoOne, None)
    \/ \E nm \in EditNames, d \in Descriptions : AddLocalToIndex(nm, d, LocalPath)
    \/ \E nm \in EditNames : RemoveFromIndex(nm)

InitLoaded ==
    /\ catalog = { RepoOne }
    /\ running = { "main" }
    /\ remote = [u \in Urls |-> ArchOne]
    /\ faults = 0
    /\ InitCache
    /\ \E f \in LoadedFiles :
          /\ templates = Deserialize(f)
          /\ shuffled = (Deserialize(f) # f)
    /\ for_remote \in BOOLEAN
    /\ remote_indexes = <<>>
    /\ out = NoOut

SpecLoaded ==
    InitLoaded /\ [][NextEdit]_vars

-----------------------------------------------------------------------------
(* Template::download, on the templates of the local index; nothing fails and   *)
(* the server keeps its archive                                                  *)

\* a second directory a Local template points to
OtherLocalPath ==
    "/templates/u"

\* the result with the path moved under a directory named after the template
LocalResult_Copied(t) ==
    [status |-> "ok", path |-> "local-" \o t.path]

\* Template::Local { path, .. } => Ok(path.clone())
LocalResult(t) ==
    [status |-> "ok", path |-> t.path]

\* Template::download
Download(p, t) ==
    \/ /\ t.kind = "Repo"
       /\ Call(p, t.repo)
    \/ /\ t.kind = "Local"
       /\ pc[p] = "idle"
       /\ p \in running
       /\ result' = [result EXCEPT ![p] = LocalResult(t)]
       /\ resp' = [resp EXCEPT ![p] = NoResp]
       /\ out_dir' = [out_dir EXCEPT ![p] = ""]
       /\ reqs' = [reqs EXCEPT ![p] = <<>>]
       /\ seen' = [seen EXCEPT ![p] = NotSeen]
       /\ pre' = [pre EXCEPT ![p] = FsSnapshot]
       /\ unpacked' = [unpacked EXCEPT ![p] = None]
       /\ out' = Out("download", t.name, TRUE, EmptyResult, Some(t))
       /\ UNCHANGED << catalog, running, now, remote, changed, fsVars, pc, ref,
                       first, faults, templates, for_remote, remote_indexes, shuffled >>

NextLocal ==
    \/ \E p \in Procs, i \in 1..Len(templates) : Download(p, templates[i])
    \/ \E p \in Procs : CreateCache(p)
    \/ \E p \in Procs : CheckFresh(p)
    \/ \E p \in Procs : Send(p)
    \/ \E p \in Procs : WriteEtag(p)
    \/ \E p \in Procs : CreateFile(p)
    \/ \E p \in Procs : ReadBody(p)
    \/ \E p \in Procs : WriteAll(p)
    \/ \E p \in Procs : Hash(p)
    \/ \E p \in Procs : Mkdir(p)
    \/ \E p \in Procs : Unpack(p)
    \/ \E p \in Procs : Flatten(p)
    \/ Tick

\* a local index with two Local templates and a Repo one, and an empty cache
InitLocal ==
    /\ catalog = { RepoOne }
    /\ running = { "main" }
    /\ remote = [u \in Urls |-> ArchOne]
    /\ faults = MaxFaults
    /\ InitCache
    /\ templates = Deserialize(<< Local(NameWeb, None, OtherLocalPath),
                                  Repo(NameWebApi, Some(DescRest), RepoOne, None, None),
                                  Local(NameWebUi, None, LocalPath) >>)
    /\ shuffled = FALSE
    /\ for_remote = FALSE
    /\ remote_indexes = <<>>
    /\ out = NoOut

SpecLocal ==
    InitLocal /\ [][NextLocal]_vars

-----------------------------------------------------------------------------
(* Claims about the archive cache *)

\* the process has returned from its last call with Ok(path)
ReturnedOk(p) ==
    /\ pc[p] = "idle"
    /\ result[p].status = "ok"

\* the step in which the call of p returns Ok
ReturnsOk(p) ==
    /\ pc[p] # "idle"
    /\ pc'[p] = "idle"
    /\ result'[p].status = "ok"

\* C1: for a reference whose remote archive never changed, every successful call
\* after the first returns the path the first call returned, and does not unpack:
\* it returns at the `out_dir.exists()` check.
C1_Idempotent ==
    [][\A p \in Procs :
          ( /\ ReturnsOk(p)
            /\ first[ref[p]] # None
            /\ ~changed[archive_link(ref[p])] )
          => ( /\ result'[p].path = first[ref[p]][1].path
               /\ unpacked[p] = None
               /\ pc[p] = "hash" )]_vars

C3_TokenOfBytes ==
    (\A p \in Procs : pc[p] = "idle")
    => \A r \in Refs :
          LET etag_f == EtagPath(cache_file(r))
              path   == TarPath(cache_file(r))
          IN  etagf[etag_f] # None
              => /\ art[path] # None
                 /\ etagf[etag_f][1].of = art[path][1].data

\* the freshness check of the call of p saw the artifact, `age` seconds old
SawArtifact(p) ==
    /\ seen[p].checked
    /\ seen[p].exists

\* the token file held a token when the call of p began
StoredToken(p) ==
    pre[p].etagf[EtagPath(cache_file(ref[p]))]

\* the bytes of the artifact when the call of p began
StoredBytes(p) ==
    pre[p].art[TarPath(cache_file(ref[p]))][1].data

\* C4: when the artifact exists and is less than 60 seconds old, the call sends no
\* request at all, and the directory it returns is the one of the bytes that were
\* on disk when it began.
C4_FreshNoNetwork ==
    \A p \in Procs :
        (SawArtifact(p) /\ seen[p].age < FreshSecs)
        => /\ reqs[p] = <<>>
           /\ ReturnedOk(p) =>
                 result[p].path = OutDir(cache_file(ref[p]), hash_buffer(StoredBytes(p)))

\* a call on a fresh artifact has returned Ok although the server holds other bytes
C4_Witness ==
    \E p \in Procs :
        /\ ReturnedOk(p)
        /\ SawArtifact(p)
        /\ seen[p].age < FreshSecs
        /\ seen[p].age > 0
        /\ changed[archive_link(ref[p])]
        /\ remote[archive_link(ref[p])] # StoredBytes(p)

\* C5: when the artifact exists and is more than 60 seconds old, the call sends
\* exactly one request, to the archive url, and the request carries the token that
\* is stored in the token file.
C5_StaleOneConditionalFetch ==
    \A p \in Procs :
        (SawArtifact(p) /\ seen[p].age > FreshSecs /\ pc[p] # "send")
        => /\ Len(reqs[p]) = 1
           /\ reqs[p][1].url = archive_link(ref[p])
           /\ reqs[p][1].if_none_match = StoredToken(p)

\* C6: when the artifact is missing, the one request of the call carries no token,
\* whatever the token file holds, and once download_file has returned Ok the
\* artifact exists.
C6_MissingUnconditional ==
    \A p \in Procs :
        (seen[p].checked /\ ~seen[p].exists /\ pc[p] # "send")
        => /\ Len(reqs[p]) = 1
           /\ reqs[p][1].if_none_match = None
           /\ pc[p] = "hash" => art[TarPath(cache_file(ref[p]))] # None

\* C7: after a 304 answer download_file returns Ok at once, and the artifact and
\* the token file are as they were.
C7_NotModifiedLeavesFiles ==
    \A p \in Procs :
        resp[p].status = "304"
        => /\ art = pre[p].art
           /\ etagf = pre[p].etagf
           /\ pc[p] \in { "hash", "mkdir", "unpack", "flatten", "idle" }
           /\ result[p].status # "reqwest"

\* a conditional request was answered 304 and the call returned Ok
C7_Witness ==
    \E p \in Procs :
        /\ resp[p].status = "304"
        /\ reqs[p][1].if_none_match # None
        /\ ReturnedOk(p)

\* C8: a call that returns a transport or status error has sent one request, and
\* the artifact, the token file and the extracted directories are as they were.
C8_FailedFetchLeavesCache ==
    \A p \in Procs :
        (pc[p] = "idle" /\ result[p].status = "reqwest")
        => /\ Len(reqs[p]) = 1
           /\ art = pre[p].art
           /\ etagf = pre[p].etagf
           /\ dirs = pre[p].dirs

\* the call of p could not read the stored token and went on without it
TokenReadLost(p) ==
    /\ reqs[p] # <<>>
    /\ StoredToken(p) # None
    /\ reqs[p][1].if_none_match = None

\* C9: no call aborts, and a call that met a failure returns an error: a call that
\* could not read the stored token does not return Ok.
C9_EveryFailureReturned ==
    \A p \in Procs :
        /\ result[p].status # "panic"
        /\ ReturnedOk(p) => ~TokenReadLost(p)

\* the entries a whole stream unpacks to
TreeOf(data) ==
    Extracted(data, Len(EntriesOf(data)))

\* C10: when a call has unpacked an archive with one top-level directory and
\* returns Ok, out_dir holds the children of that directory and not the directory;
\* for X/ holding a and b, out_dir holds exactly a and b.
C10_Flattened ==
    \A p \in Procs :
        (ReturnedOk(p) /\ unpacked[p] # None)
        => LET tree == TreeOf(unpacked[p][1])
               got  == dirs[result[p].path]
           IN  /\ got # None
               /\ (\E x \in tree : TopLevel(tree) = { x } /\ x.dir)
                  => /\ \A c \in tree : Len(c.path) = 2 => Entry(<< c.path[2] >>, c.dir) \in got[1]
                     /\ \A e \in got[1] : Len(e.path) = 1 /\ e \notin TopLevel(tree)
               /\ unpacked[p][1] = ArchOne
                  => got[1] = { Entry(<<"a">>, FALSE), Entry(<<"b">>, FALSE) }

\* a call has unpacked X/ holding a and b and returned Ok
C10_Witness ==
    \E p \in Procs :
        /\ ReturnedOk(p)
        /\ unpacked[p] = Some(ArchOne)

\* C11: a call that unpacked a whole archive with no top-level entry, or with more
\* than one, returns an error: it neither returns Ok(path) nor aborts.
C11_WrongShapeIsError ==
    \A p \in Procs :
        ( /\ pc[p] = "idle"
          /\ unpacked[p] # None
          /\ IsComplete(unpacked[p][1])
          /\ Cardinality(TopLevel(TreeOf(unpacked[p][1]))) # 1 )
        => result[p].status \in { "io", "reqwest" }

\* C12: the `out_dir.exists()` check is no guard between processes: whenever a
\* process makes the check while another process is unpacking or flattening the
\* very directory the check is about, it returns that directory as its result.
C12_ExistsCheckNoGuard ==
    [][\A p, q \in Procs :
          LET path == TarPath(cache_file(ref[p])) IN
          ( /\ p # q
            /\ pc[p] = "hash"
            /\ pc'[p] # "hash"
            /\ pc[q] \in { "unpack", "flatten" }
            /\ art[path] # None
            /\ out_dir[q] = OutDir(cache_file(ref[p]), hash_buffer(art[path][1].data))
            /\ result'[p].status # "panic" )
          => ( /\ ReturnsOk(p)
               /\ result'[p].path = out_dir[q] )]_vars

\* one process has returned a directory that the other is still unpacking or
\* flattening: the wrapper X/ is in it, or nothing yet
C12_Witness ==
    \E p, q \in Procs :
        /\ p # q
        /\ ReturnedOk(p)
        /\ pc[q] \in { "unpack", "flatten" }
        /\ out_dir[q] = result[p].path
        /\ \A e \in dirs[result[p].path][1] : e.path[1] = "X"

\* C13: two different references never use the same artifact file, token file or
\* extracted-directory prefix: once both were resolved on one cache root, their
\* cache keys and file names differ.
C13_KeyedByReference ==
    \A r1, r2 \in Refs :
        (r1 # r2 /\ first[r1] # None /\ first[r2] # None)
        => /\ cache_file(r1) # cache_file(r2)
           /\ TarPath(cache_file(r1)) # TarPath(cache_file(r2))
           /\ EtagPath(cache_file(r1)) # EtagPath(cache_file(r2))

\* <provider>_<owner>_<repo>_<revision>, as the cache layout is documented
LayoutName(r) ==
    (IF r.git_provider = "GitHub" THEN "github" ELSE "gitlab")
        \o "_" \o r.user \o "_" \o r.repo \o "_" \o r.git_ref

\* C14: the files in the cache root are the ones of the documented layout: every
\* artifact is <provider>_<owner>_<repo>_<revision>.tar.gz of a resolved reference,
\* every token file has that name with .etag in place of .gz, and a call that
\* returned Ok returned <provider>_<owner>_<repo>_<revision>-<hex digest of the bytes
\* the artifact holds now>, with the artifact present.
C14_CacheLayout ==
    /\ \A f \in DOMAIN art :
          art[f] # None => \E r \in catalog : f = LayoutName(r) \o ".tar.gz"
    /\ \A f \in DOMAIN etagf :
          etagf[f] # None => \E r \in catalog : f = LayoutName(r) \o ".tar.etag"
    /\ \A d \in DOMAIN dirs :
          dirs[d] # None
          => \E r \in catalog, b \in Bytes : d = LayoutName(r) \o "-" \o hash_buffer(b)
    /\ \A p \in Procs :
          ReturnedOk(p)
          => \E f \in DOMAIN art :
                /\ f = LayoutName(ref[p]) \o ".tar.gz"
                /\ art[f] # None
                /\ result[p].path = LayoutName(ref[p]) \o "-" \o hash_buffer(art[f][1].data)

\* a call has fetched the artifact with a token, unpacked it and returned Ok
C14_Witness ==
    \E p \in Procs :
        /\ ReturnedOk(p)
        /\ unpacked[p] # None
        /\ art[TarPath(cache_file(ref[p]))] # None
        /\ etagf[EtagPath(cache_file(ref[p]))] # None

-----------------------------------------------------------------------------
(* Claims about the index *)

\* the elements of a sequence
Elems(seq) ==
    { seq[i] : i \in 1..Len(seq) }

\* term occurs in s at some position
IsSubstring(term, s) ==
    \E i \in 1..(Len(s) + 1) :
        \A k \in 1..Len(term) :
            /\ i + k - 1 <= Len(s)
            /\ s[i + k - 1] = term[k]

\* a comes before b in the exact order of strings: at the first place where they
\* differ a has the smaller character, or a ends there and b goes on
StrLess(a, b) ==
    \E k \in 1..Len(b) :
        /\ k <= Len(a) + 1
        /\ \A j \in 1..(k - 1) : a[j] = b[j]
        /\ (k = Len(a) + 1 \/ code(a[k]) < code(b[k]))

\* C15: find_exact returns at most one entry; the entry it returns is an entry of
\* the index whose name is the query itself, and it returns none exactly when no
\* entry has that name.
C15_FindExact ==
    ( /\ out.cmd = "new"
      /\ out.index = None
      /\ remote_indexes = <<>>
      /\ (out.ok \/ out.why = "Unknown template") )
    => LET same == { i \in 1..Len(templates) : templates[i].name = out.arg } IN
       /\ Cardinality(same) <= 1
       /\ out.template = None <=> same = {}
       /\ out.template # None
          => /\ Len(out.template) = 1
             /\ out.template[1].name = out.arg
             /\ out.template[1] \in Elems(templates)

\* the query "web" was looked up in an index that holds names containing it, and
\* nothing was returned
C15_Witness ==
    /\ out.cmd = "new"
    /\ out.why = "Unknown template"
    /\ out.arg = TermWeb
    /\ out.template = None
    /\ \E t \in Elems(templates) : IsSubstring(TermWeb, t.name)

\* C16: find(term) puts every entry of the index in exactly one of both, name-only,
\* description-only, neither: both iff term is in the name and in a present
\* description, name-only iff in the name alone, description-only iff in a present
\* description alone; no entry is in two buckets or twice in one.
C16_FindPartition ==
    out.cmd = "find"
    => LET term     == out.arg
           both     == out.found.name_and_description
           nameOnly == out.found.name_only
           descOnly == out.found.description_only
       IN  /\ \A t \in Elems(templates) :
                 LET inName == IsSubstring(term, t.name)
                     inDesc == t.description # None /\ IsSubstring(term, t.description[1])
                 IN  /\ t \in Elems(both) <=> (inName /\ inDesc)
                     /\ t \in Elems(nameOnly) <=> (inName /\ ~inDesc)
                     /\ t \in Elems(descOnly) <=> (~inName /\ inDesc)
           /\ Elems(both) \cup Elems(nameOnly) \cup Elems(descOnly) \subseteq Elems(templates)
           /\ Elems(both) \cap Elems(nameOnly) = {}
           /\ Elems(both) \cap Elems(descOnly) = {}
           /\ Elems(nameOnly) \cap Elems(descOnly) = {}
           /\ Len(both) = Cardinality(Elems(both))
           /\ Len(nameOnly) = Cardinality(Elems(nameOnly))
           /\ Len(descOnly) = Cardinality(Elems(descOnly))

\* a search has put an entry in each of the three buckets
C16_Witness ==
    /\ out.cmd = "find"
    /\ out.found.name_and_description # <<>>
    /\ out.found.name_only # <<>>
    /\ out.found.description_only # <<>>

\* the index holds "web-api" (description "REST service") and "web-ui" (no
\* description), and nothing else
ScenarioCatalog ==
    { << t.name, t.description >> : t \in Elems(templates) }
        = { << NameWebApi, Some(DescRest) >>, << NameWebUi, None >> }

\* the names of the entries of a bucket
NamesOf(bucket) ==
    { bucket[i].name : i \in 1..Len(bucket) }

\* C17, as claimed: on the scenario index find("web") yields both = {} and
\* name-only = {web-api, web-ui}, and find("rest") yields description-only =
\* {web-api}.
C17_Scenario ==
    (ScenarioCatalog /\ out.cmd = "find")
    => /\ out.arg = TermWeb
          => /\ out.found.name_and_description = <<>>
             /\ NamesOf(out.found.name_only) = { NameWebApi, NameWebUi }
       /\ out.arg = TermRest
          => NamesOf(out.found.description_only) = { NameWebApi }

\* C17, amended: on the scenario index find("web") yields both = {} and name-only =
\* {web-api, web-ui}; find("REST") yields description-only = {web-api} and nothing
\* else; find("rest") yields nothing, the substring test being case-sensitive.
C17_ScenarioExactCase ==
    (ScenarioCatalog /\ out.cmd = "find")
    => /\ out.arg = TermWeb
          => /\ out.found.name_and_description = <<>>
             /\ NamesOf(out.found.name_only) = { NameWebApi, NameWebUi }
       /\ out.arg = TermREST
          => /\ NamesOf(out.found.description_only) = { NameWebApi }
             /\ out.found.name_and_description = <<>>
             /\ out.found.name_only = <<>>
       /\ out.arg = TermRest
          => out.found = EmptyResult

\* "REST" was searched in the scenario index and found in a description
C17_Witness ==
    /\ ScenarioCatalog
    /\ out.cmd = "find"
    /\ out.arg = TermREST
    /\ out.found.description_only # <<>>

\* the names of the bucket ascend in the exact order of strings
Ascending(bucket) ==
    \A i, j \in 1..Len(bucket) :
        i < j => StrLess(bucket[i].name, bucket[j].name)

\* C18: in each bucket find returns, the entries are in ascending order of their
\* names, whatever order they were inserted in.
C18_BucketOrder ==
    out.cmd = "find"
    => /\ Ascending(out.found.name_and_description)
       /\ Ascending(out.found.name_only)
       /\ Ascending(out.found.description_only)

\* a search returned two entries in one bucket, from an index whose entries were
\* not inserted in the order of their names
C18_Witness ==
    /\ out.cmd = "find"
    /\ shuffled
    /\ Len(out.found.name_only) >= 2

\* C19: when a record is inserted whose name an entry of the index has already,
\* the index stays as it was: the entry keeps all its fields and no entry is added.
C19_DuplicateInsertNoOp ==
    [][( /\ out'.cmd = "load"
         /\ \E i \in 1..Len(templates) : templates[i].name = out'.arg )
       => templates' = templates]_vars

\* a record was inserted whose name was taken by an entry with other fields, and
\* that entry is still there
C19_Witness ==
    /\ out.cmd = "load"
    /\ \E i \in 1..Len(templates) :
          /\ templates[i].name = out.arg
          /\ templates[i] # out.template[1]
          /\ templates[i].description # out.template[1].description

\* C20: two entries (of the index, or the one the last command was given or found)
\* are equal iff their names are the same string, whatever their variant and other
\* fields, and they are ordered as their names are; no two entries of the index
\* have the same name.
C20_IdentityByName ==
    /\ \A t \in Elems(templates), u \in Elems(templates) \cup Elems(out.template) :
          /\ eq(t, u) <=> t.name = u.name
          /\ cmp(t, u) = "Equal" <=> t.name = u.name
          /\ cmp(t, u) = "Less" <=> StrLess(t.name, u.name)
          /\ cmp(t, u) = "Greater" <=> StrLess(u.name, t.name)
    /\ \A i, j \in 1..Len(templates) :
          i # j => templates[i].name # templates[j].name

\* a Local and a Repository record of one name met: the index holds one of them,
\* next to an entry of another name
C20_Witness ==
    /\ out.cmd = "load"
    /\ Len(templates) >= 2
    /\ \E i \in 1..Len(templates) :
          /\ templates[i].name = out.arg
          /\ templates[i].kind # out.template[1].kind

\* the characters [A-Za-z0-9_-] that occur in the names of the model
AllowedChars ==
    { "-", "_", "1", "E", "R", "S", "T", "W", "a", "b", "c", "d", "e", "i", "k", "m",
      "n", "o", "p", "r", "s", "t", "u", "v", "w" }

\* the commands that check a name before anything else
ChecksNameFirst ==
    { "new", "remove" }

\* C21: check_template_name succeeds iff every character of the name is in
\* [A-Za-z0-9_-]; otherwise it reports the first offending character and its index
\* counted from 0: "ok-name_1" succeeds, "bad name" fails with the space at index 3.
C21_CheckName ==
    out.cmd \in ChecksNameFirst
    => LET nm  == out.arg
           bad == { i \in 1..Len(nm) : nm[i] \notin AllowedChars }
       IN  /\ out.err = None <=> bad = {}
           /\ bad # {} => ~out.ok
           /\ out.err # None
              => \E i \in bad :
                    /\ \A j \in bad : i <= j
                    /\ out.err = Some([c |-> nm[i], index |-> i - 1])
           /\ nm = NameOk => out.err = None
           /\ nm = NameBadName => out.err = Some([c |-> " ", index |-> 3])

\* "bad name" was checked and rejected
C21_Witness ==
    /\ out.cmd = "new"
    /\ out.arg = NameBadName
    /\ ~out.ok
    /\ out.err # None

\* C27: add-local on an index whose for_remote flag is set fails and leaves the
\* index as it was: no entry is added and the flag stays set.
C27_ForRemoteNoLocal ==
    [][(for_remote /\ out'.cmd = "add_local")
       => /\ ~out'.ok
          /\ templates' = templates
          /\ for_remote']_vars

\* add-local was refused on a for_remote index, for a good name that is free
C27_Witness ==
    /\ for_remote
    /\ out.cmd = "add_local"
    /\ ~out.ok
    /\ out.arg \in Names
    /\ \A t \in Elems(templates) : t.name # out.arg

\* the names of the entries, as a set
NameSet(set) ==
    { set[i].name : i \in 1..Len(set) }

\* the entries, as a set
EntrySet(set) ==
    { set[i] : i \in 1..Len(set) }

\* C34: after every add, add-local and remove no two entries of the index have
\* one name; an add whose name is taken, or has a character outside
\* [A-Za-z0-9_-], fails and leaves the index as it was; an add that succeeds
\* has a name with allowed characters only and adds that entry and nothing else.
C34_AddGuards ==
    [][/\ \A i, j \in 1..Len(templates') :
             templates'[i].name = templates'[j].name => i = j
       /\ out'.cmd \in { "add", "add_local" }
          => LET nm    == out'.arg
                 taken == nm \in NameSet(templates)
                 bad   == \E i \in 1..Len(nm) : nm[i] \notin AllowedChars
             IN  /\ (taken \/ bad) => (~out'.ok /\ templates' = templates)
                 /\ ~out'.ok => templates' = templates
                 /\ out'.ok
                    => /\ out'.template[1].name = nm
                       /\ EntrySet(templates') = EntrySet(templates) \cup { out'.template[1] }
                       /\ Len(templates') = Len(templates) + 1
       /\ for_remote' = for_remote]_vars

\* C34 witness: an add was refused for a name an entry of the other variant
\* holds, and that entry is still in the index.
C34_Witness ==
    /\ out.cmd = "add"
    /\ ~out.ok
    /\ out.arg \in Names
    /\ \E i \in 1..Len(templates) :
          /\ templates[i].name = out.arg
          /\ templates[i].kind = "Local"

\* C35 as stated: remove with a name the index holds succeeds and takes out
\* that entry and nothing else, whatever the name; with a name the index does
\* not hold it fails and leaves the index as it was; the flag is never changed.
C35_RemoveExactly ==
    [][out'.cmd = "remove"
       => /\ for_remote' = for_remote
          /\ IF out'.arg \in NameSet(templates)
             THEN /\ out'.ok
                  /\ EntrySet(templates') = { t \in EntrySet(templates) : t.name # out'.arg }
                  /\ Len(templates') = Len(templates) - 1
             ELSE /\ ~out'.ok
                  /\ templates' = templates]_vars

-----------------------------------------------------------------------------
(* Claims about the extracted directories and the freshness window *)

\* what out_dir holds after a whole stream with one top-level directory was
\* unpacked and flattened
FlatTree(data) ==
    { Hoisted(c) : c \in { e \in TreeOf(data) : Len(e.path) = 2 } }

\* C28 as stated: a directory returned with Ok holds the complete flattened
\* contents of the artifact whose digest is in its name.
C28_ReturnedDirComplete ==
    \A p \in Procs :
        ReturnedOk(p)
        => \E b \in Bytes :
              /\ result[p].path = OutDir(cache_file(ref[p]), hash_buffer(b))
              /\ IsComplete(b)
              /\ dirs[result[p].path] = Some(FlatTree(b))

\* C29: a call that found the artifact and was answered 304 leaves the
\* artifact, modification time included, as it was when the call began, and the
\* artifact is still more than 60 seconds old, so the next call finds it stale
\* again; and a call that found the artifact more than 60 seconds old has sent
\* one request to the archive url.
C29_NotModifiedKeepsStale ==
    \A p \in Procs :
        LET path == TarPath(cache_file(ref[p])) IN
        /\ (SawArtifact(p) /\ resp[p].status = "304")
           => /\ art[path] # None
              /\ art[path] = pre[p].art[path]
              /\ now > art[path][1].mtime + FreshSecs
        /\ (SawArtifact(p) /\ seen[p].age > FreshSecs /\ pc[p] # "send")
           => /\ Len(reqs[p]) = 1
              /\ reqs[p][1].url = archive_link(ref[p])

\* C29 witness: a call found the artifact more than 60 seconds old, was answered
\* 304 and returned Ok; time has passed since, and the artifact is older still.
C29_Witness ==
    \E p \in Procs :
        /\ ReturnedOk(p)
        /\ resp[p].status = "304"
        /\ seen[p].age > FreshSecs
        /\ now - art[TarPath(cache_file(ref[p]))][1].mtime > seen[p].age

\* C30: a directory that existed when a call began is, during the call and after
\* it, as it was: the call writes only into a directory it created itself. So
\* every directory other than the returned one is unchanged, and no directory
\* is ever removed.
C30_OtherDirsUntouched ==
    \A p \in Procs :
        \A d \in DirNames :
            pre[p].dirs[d] # None => dirs[d] = pre[p].dirs[d]

\* C30 witness: the remote archive changed, and a call that began with the
\* directory of the old bytes on disk has extracted the new bytes into a new
\* directory and returned it.
C30_Witness ==
    \E p \in Procs :
        /\ ReturnedOk(p)
        /\ unpacked[p] # None
        /\ pre[p].dirs[result[p].path] = None
        /\ \E d \in DirNames \ { result[p].path } :
              /\ pre[p].dirs[d] # None
              /\ pre[p].dirs[d][1] # {}

\* the step in which p downloads a Local template: the call returns at once
LocalDownload(p) ==
    /\ pc[p] = "idle"
    /\ pc'[p] = "idle"
    /\ out'.cmd = "download"
    /\ result'[p] # result[p]

\* C25: the download of a Local template returns the path stored in the
\* template, sends no request, looks at no file of the cache, and leaves the
\* cache root (created or not), the artifacts, the token files and the
\* extracted directories as they were.
C25_LocalNoEffect ==
    [][\A p \in Procs :
          LocalDownload(p)
          => /\ out'.template[1].kind = "Local"
             /\ result'[p] = [status |-> "ok", path |-> out'.template[1].path]
             /\ reqs'[p] = <<>>
             /\ ~seen'[p].checked
             /\ unpacked'[p] = None
             /\ UNCHANGED << cache_exists, art, etagf, dirs >>]_vars

\* C25 witness: a Local template was downloaded on a machine whose cache root
\* was never created; the call returned the stored path and there is still no
\* cache root.
C25_Witness ==
    \E p \in Procs :
        /\ ReturnedOk(p)
        /\ out.cmd = "download"
        /\ result[p].path = OtherLocalPath
        /\ ~cache_exists

\* C31 as stated: when download_file has written a full response, the artifact
\* holds the body of the response and the token file holds the token sent with
\* it; when the response carried no token, the token file holds none.
C31_TokenOfDownload ==
    \A p \in Procs :
        (pc[p] = "hash" /\ resp[p].status = "200")
        => LET file == cache_file(ref[p])
               url  == archive_link(ref[p])
           IN  /\ art[TarPath(file)] # None
               /\ art[TarPath(file)][1].data = resp[p].body
               /\ resp[p].etag = "text"
                  => etagf[EtagPath(file)] = Some(ServerEtag(url, resp[p].body))
               /\ resp[p].etag = "none" => etagf[EtagPath(file)] = None

-----------------------------------------------------------------------------
(* Claims about the search over several indexes and about the listing *)

Buckets ==
    { "name_and_description", "name_only", "description_only" }

\* the hits of source k in bucket b, tagged: source 0 is the local index,
\* source k the k-th remote index of the config
SourceHits(k, term, b) ==
    IF k = 0
    THEN [i \in 1..Len(find(templates, term)[b]) |-> << LocalLabel, find(templates, term)[b][i] >>]
    ELSE LET hits == find(Deserialize(IndexIn(remote_indexes[k].repo)), term)[b]
         IN  [i \in 1..Len(hits) |-> << remote_indexes[k].name, hits[i] >>]

\* the number of hits the sources before source k put in bucket b
RECURSIVE Offset(_, _, _)
Offset(k, term, b) ==
    IF k = 0 THEN 0 ELSE Offset(k - 1, term, b) + Len(SourceHits(k - 1, term, b))

FindSucceeded ==
    out.cmd = "find" /\ out.ok

\* C22: in every bucket of the merged result of a find, the hits of the local
\* index come first, then the hits of each remote index in the order of the
\* config, the hits of one source in the order its own search gave them, and
\* the bucket holds nothing else.
C22_MergeOrder ==
    FindSucceeded =>
        \A b \in Buckets :
            /\ Len(out.composite[b]) = Offset(Len(remote_indexes) + 1, out.arg, b)
            /\ \A k \in 0..Len(remote_indexes) :
                  \A i \in 1..Len(SourceHits(k, out.arg, b)) :
                      out.composite[b][Offset(k, out.arg, b) + i] = SourceHits(k, out.arg, b)[i]

\* C22 witness: a find over two remote indexes whose merged bucket holds a local
\* hit, then hits of the first remote index, then hits of the second.
C22_Witness ==
    /\ FindSucceeded
    /\ Len(remote_indexes) = 2
    /\ remote_indexes[1].name # remote_indexes[2].name
    /\ \E b \in Buckets : \A k \in 0..2 : Len(SourceHits(k, out.arg, b)) > 0

\* C23: composing the result of the local index tags each hit with the label
\* and changes nothing else: with no remote index, every composed bucket has the
\* length of the bucket of the result and holds, at each position, the label
\* and the entry the result holds there.
C23_ComposeTagsOnly ==
    (FindSucceeded /\ remote_indexes = <<>>) =>
        \A b \in Buckets :
            /\ Len(out.composite[b]) = Len(out.found[b])
            /\ \A i \in 1..Len(out.found[b]) :
                  out.composite[b][i] = << LocalLabel, out.found[b][i] >>

\* C23 witness: a find over the local index alone with hits in two buckets.
C23_Witness ==
    /\ FindSucceeded
    /\ remote_indexes = <<>>
    /\ \E b1, b2 \in Buckets :
          /\ b1 # b2
          /\ Len(out.found[b1]) > 0
          /\ Len(out.found[b2]) > 0

\* every (label, entry name) pair of the merged result, bucket by bucket
AllHits(composite) ==
    composite.name_and_description \o composite.name_only \o composite.description_only

\* C24 as stated: in the merged result of a find no (label, entry name) pair
\* appears in two buckets or twice in one.
C24_DisjointPerCatalog ==
    FindSucceeded =>
        LET hits == AllHits(out.composite)
        IN  \A i, j \in 1..Len(hits) :
                (hits[i][1] = hits[j][1] /\ hits[i][2].name = hits[j][2].name) => i = j

\* the parts of a rendered summary that equal the piece
Count(summary, piece) ==
    Cardinality({ i \in 1..Len(summary) : summary[i] = piece })

\* C26 as stated: a summary starts with the name, "=>" and the link or path;
\* the description appears iff present; with an issue the words "for issue" and
\* the number appear exactly once each, without one neither appears; and what
\* follows the link or path is separated from it.
C26_Summary ==
    out.cmd = "list" =>
        \A i \in 1..Len(out.summary) :
            LET s == out.summary[i]
                t == templates[i]
                issue == IF t.kind = "Repo" THEN t.issue ELSE None
            IN  /\ s[1] = [name |-> t.name]
                /\ s[2] = Lit(" => ")
                /\ s[3] = (IF t.kind = "Repo" THEN [link |-> link(t.repo)] ELSE [path |-> t.path])
                /\ Len(s) > 3 => s[4] = Lit(" ")
                /\ \A d \in Descriptions \ { None } :
                      Count(s, [desc |-> d[1]]) = (IF t.description = d THEN 1 ELSE 0)
                /\ Count(s, Lit("for issue ")) = (IF issue = None THEN 0 ELSE 1)
                /\ \A n \in Issues \ { None } :
                      Count(s, [num |-> ToString(n[1])]) = (IF issue = n THEN 1 ELSE 0)

-----------------------------------------------------------------------------
(* Claims about the resolution of a name by new *)

\* the positions of the remote indexes called label
Named(indexes, label) ==
    { i \in 1..Len(indexes) : indexes[i].name = label }

\* the entries called nm in the local index (source 0) or in the index of the
\* k-th remote index of the config: none or one
Holding(k, nm) ==
    IF k = 0
    THEN { t \in EntrySet(templates) : t.name = nm }
    ELSE { t \in EntrySet(Deserialize(IndexIn(remote_indexes[k].repo))) : t.name = nm }

\* the first of the sources in ks that holds nm, as a set of sources
FirstHolding(ks, nm) ==
    { k \in ks : Holding(k, nm) # {} /\ \A j \in ks : Holding(j, nm) # {} => k <= j }

\* the sources new may take the template from: with no --index the local index
\* and, if it does not hold the name, the remote indexes in the order of the
\* config; with --index local the local index; with --index R the first remote
\* index called R
Resolved(index, nm) ==
    IF index = None
    THEN FirstHolding(0..Len(remote_indexes), nm)
    ELSE IF index[1] = "local"
    THEN FirstHolding({ 0 }, nm)
    ELSE FirstHolding({ k \in Named(remote_indexes, index[1]) :
                          \A j \in Named(remote_indexes, index[1]) : k <= j }, nm)

\* C32: when new finds a template it is the entry of that name in the source
\* the rules give: the local index first and then the remote indexes in config
\* order when no index is named, the local index alone for "local", the first
\* remote index of that name alone for any other name; and when the rules give
\* no source (unknown index, or no entry of that name) new fails.
C32_Resolution ==
    out.cmd = "new"
    => /\ Cardinality(Resolved(out.index, out.arg)) <= 1
       /\ out.ok
          => \E k \in Resolved(out.index, out.arg) :
                /\ out.template # None
                /\ Holding(k, out.arg) = { out.template[1] }
       /\ Resolved(out.index, out.arg) = {} => ~out.ok

\* C32 witness: no index was named, the local index does not hold the name, two
\* remote indexes hold it with different entries, and new found the entry of the
\* first.
C32_Witness ==
    /\ out.cmd = "new"
    /\ out.ok
    /\ out.index = None
    /\ Holding(0, out.arg) = {}
    /\ Len(remote_indexes) = 2
    /\ Holding(1, out.arg) # {}
    /\ Holding(2, out.arg) # {}
    /\ Holding(1, out.arg) # Holding(2, out.arg)
    /\ Holding(1, out.arg) = { out.template[1] }

\* C33 as stated: new for a name the local index holds, with no index named or
\* with "local", finds the template and reads no remote index.
C33_LocalNeedsNoRemote ==
    ( /\ out.cmd = "new"
      /\ out.index \in { None, Some("local") }
      /\ Holding(0, out.arg) # {}
      /\ \A i \in 1..Len(out.arg) : out.arg[i] \in AllowedChars )
    => /\ out.ok
       /\ out.fetched = 0

-----------------------------------------------------------------------------
(* Claims about the config *)

\* C36: no command on the config leaves a remote index named "local"; add and
\* remove fail on that name and leave the config as it was; remove of a name
\* that is not configured fails and leaves the config as it was, and remove of
\* a configured name takes out the first remote index of that name and nothing
\* else.
C36_LocalReserved ==
    [][/\ Named(remote_indexes', "local") = {}
       /\ (out'.cmd \in { "add_remote", "remove_remote" } /\ out'.label = "local")
          => /\ ~out'.ok
             /\ remote_indexes' = remote_indexes
       /\ out'.cmd = "remove_remote"
          => LET hits == Named(remote_indexes, out'.label) IN
             IF hits = {}
             THEN /\ ~out'.ok
                  /\ remote_indexes' = remote_indexes
             ELSE \E k \in hits :
                     /\ \A j \in hits : k <= j
                     /\ out'.ok
                     /\ Len(remote_indexes') = Len(remote_indexes) - 1
                     /\ \A j \in 1..Len(remote_indexes') :
                           remote_indexes'[j] = remote_indexes[IF j < k THEN j ELSE j + 1]]_vars

\* C36 witness: two remote indexes of one name and different repositories were
\* configured, one was removed, and the one that was second is left.
C36_Witness ==
    /\ out.cmd = "remove_remote"
    /\ out.ok
    /\ Len(remote_indexes) = 1
    /\ remote_indexes[1].name = out.label
    /\ remote_indexes[1].repo = RepoThree

=============================================================================
